---- MODULE Spec2Model ----
(***************************************************************************)
(* Board-order parser: order segmentation, field extraction, order-to-      *)
(* label matching and quantity expansion.                                   *)
(*                                                                          *)
(* Text is a sequence of one-character strings.  A DataFrame is a sequence  *)
(* of rows; a row is a function from column names to values.                *)
(***************************************************************************)
EXTENDS Integers, Sequences, FiniteSets, TLC

VARIABLES
    \* ---- match_orders_to_labels (parsers/label_matcher.py)
    callerOrders,   \* the caller's orders DataFrame object
    callerLabels,   \* the caller's labels DataFrame object
    orders_df,      \* local name orders_df
    labels_df,      \* local name labels_df
    label_map,      \* list of (best_label_id, status)
    rowIdx,         \* position of the outer loop
    labIdx,         \* position of the inner loop
    best_label_id,
    status,
    compared,       \* number of order/label comparisons made in this call
    matchResult,    \* value returned by the call
    prevResult,     \* value returned by the previous call on the same inputs
    runs,           \* number of calls started
    mpc,
    \* ---- _split_segments (parsers/order_parser.py)
    full_text,
    parts,
    segments,
    spc,
    \* ---- expand_by_quantity (generators/csv_generator.py)
    filtered,       \* the caller's frame: sequence of [idx, row]
    expanded,
    epc,
    \* ---- _extract_order_info / _extract_customization / record assembly
    segment,
    info,
    cust,
    record,
    xpc,
    \* ---- normalize_board_type (utils/helpers.py)
    board_raw,      \* the argument: order_option_raw
    board_once,     \* normalize_board_type(board_raw)
    board_twice,    \* normalize_board_type(board_once)
    bpc,
    \* ---- _extract_label_from_page (parsers/shipping_parser.py)
    page_text,      \* the argument: page.extract_text() or ""
    label_core,     \* the value returned
    lpc,
    \* ---- fuzzy_equal (utils/helpers.py)
    name_a,
    name_b,
    equal_ab,       \* fuzzy_equal(name_a, name_b)
    equal_ba,       \* fuzzy_equal(name_b, name_a)
    fpc,
    \* ---- parse_order_details_pdfs / parse_shipping_label_pdfs
    parser,         \* which of the two functions is called
    uploaded_files, \* the batch of documents
    file_idx,       \* number of documents finished
    unit_idx,       \* number of chunks / pages of the current document finished
    collected,      \* the list records / labels
    call_state,     \* "running", "returned" or "raised"
    ppc,
    \* ---- _extract_shipping_block (parsers/order_parser.py)
    seg_lines,      \* the argument: seg.splitlines()
    shipping,       \* the values returned
    hpc

matchVars  == <<callerOrders, callerLabels, orders_df, labels_df, label_map,
                rowIdx, labIdx, best_label_id, status, compared, matchResult,
                prevResult, runs, mpc>>
splitVars  == <<full_text, parts, segments, spc>>
expandVars == <<filtered, expanded, epc>>
orderVars  == <<segment, info, cust, record, xpc>>
boardVars  == <<board_raw, board_once, board_twice, bpc>>
pageVars   == <<page_text, label_core, lpc>>
fuzzyVars  == <<name_a, name_b, equal_ab, equal_ba, fpc>>
parseVars  == <<parser, uploaded_files, file_idx, unit_idx, collected,
                call_state, ppc>>
shipVars   == <<seg_lines, shipping, hpc>>
laterVars  == <<boardVars, pageVars, fuzzyVars, parseVars, shipVars>>
vars == <<matchVars, splitVars, expandVars, orderVars, laterVars>>

(***************************************************************************)
(* Characters and the string primitives the code relies on.                 *)
(***************************************************************************)
UpperCase == <<"A","B","C","D","E","F","G","H","I","J","K","L","M",
               "N","O","P","Q","R","S","T","U","V","W","X","Y","Z">>
LowerCase == <<"a","b","c","d","e","f","g","h","i","j","k","l","m",
               "n","o","p","q","r","s","t","u","v","w","x","y","z">>
Digits == {"0","1","2","3","4","5","6","7","8","9"}
LowerSet == {LowerCase[i] : i \in 1..26}
UpperSet == {UpperCase[i] : i \in 1..26}
\* \s of the re module (ASCII part)
Whitespace == {" ", "\n", "\t", "\r", "\f"}
\* \w of the re module (ASCII part)
WordChars == LowerSet \cup UpperSet \cup Digits \cup {"_"}

SetMin(S) == CHOOSE x \in S : \A y \in S : x <= y
SetMax(S) == CHOOSE x \in S : \A y \in S : x >= y

\* str.lower() on one character
lower_char(c) ==
    IF c \in UpperSet
    THEN LowerCase[CHOOSE i \in 1..26 : UpperCase[i] = c]
    ELSE c

\* str.lower()
lower(s) == [i \in 1..Len(s) |-> lower_char(s[i])]

\* str.strip()
strip(s) ==
    LET keep == {i \in 1..Len(s) : s[i] \notin Whitespace}
    IN  IF keep = {} THEN <<>> ELSE SubSeq(s, SetMin(keep), SetMax(keep))

\* helpers.safe_strip: None is modelled by the empty text
safe_strip(text) == strip(text)

IsLowerAlnum(c) == c \in LowerSet \cup Digits

\* helpers.normalize_for_match
normalize_for_match(text) == SelectSeq(lower(safe_strip(text)), IsLowerAlnum)

(***************************************************************************)
(* difflib.SequenceMatcher(None, a, b).ratio() for texts shorter than 200   *)
(* characters (no junk, no "popular" elements).                             *)
(***************************************************************************)
\* a[i+1 .. i+k] = b[j+1 .. j+k]  (0-based start offsets i, j)
BlockAt(a, b, i, j, k) == \A d \in 1..k : a[i + d] = b[j + d]

\* SequenceMatcher.find_longest_match(alo, ahi, blo, bhi): the longest
\* matching block, then the one starting earliest in a, then earliest in b.
find_longest_match(a, b, alo, ahi, blo, bhi) ==
    LET cand == {t \in (alo..(ahi - 1)) \X (blo..(bhi - 1)) \X (1..(ahi - alo)) :
                    /\ t[1] + t[3] <= ahi
                    /\ t[2] + t[3] <= bhi
                    /\ BlockAt(a, b, t[1], t[2], t[3])}
    IN  IF cand = {} THEN <<alo, blo, 0>>
        ELSE CHOOSE t \in cand :
                \A u \in cand :
                    \/ t[3] > u[3]
                    \/ t[3] = u[3] /\ t[1] < u[1]
                    \/ t[3] = u[3] /\ t[1] = u[1] /\ t[2] <= u[2]

RECURSIVE matching_size(_, _, _, _, _, _)
\* sum of the sizes of SequenceMatcher.get_matching_blocks()
matching_size(a, b, alo, ahi, blo, bhi) ==
    LET m == find_longest_match(a, b, alo, ahi, blo, bhi)
        i == m[1]
        j == m[2]
        k == m[3]
    IN  IF k = 0 THEN 0
        ELSE k
             + (IF alo < i /\ blo < j
                THEN matching_size(a, b, alo, i, blo, j) ELSE 0)
             + (IF i + k < ahi /\ j + k < bhi
                THEN matching_size(a, b, i + k, ahi, j + k, bhi) ELSE 0)

\* fuzzy_equal's default threshold 0.8, as the fraction ThresholdNum/ThresholdDen
ThresholdNum == 8
ThresholdDen == 10

\* helpers.fuzzy_equal: ratio = 2.0 * matches / (len(a) + len(b)) >= threshold
fuzzy_equal(a, b) ==
    LET a_norm == normalize_for_match(a)
        b_norm == normalize_for_match(b)
    IN  IF a_norm = <<>> \/ b_norm = <<>> THEN FALSE
        ELSE 2 * matching_size(a_norm, b_norm, 0, Len(a_norm), 0, Len(b_norm))
                 * ThresholdDen
             >= ThresholdNum * (Len(a_norm) + Len(b_norm))

(***************************************************************************)
(* DataFrame helpers.                                                       *)
(***************************************************************************)
SeqsUpTo(S, n) == UNION {[1..k -> S] : k \in 0..n}

\* row.get(col, default)
row_get(row, col, default) == IF col \in DOMAIN row THEN row[col] ELSE default

\* df[col] = values (one value per row): adds or overwrites a column
assign_column(df, col, values) ==
    [i \in 1..Len(df) |->
        [c \in DOMAIN df[i] \cup {col} |-> IF c = col THEN values[i] ELSE df[i][c]]]

\* df.drop(columns=cols, errors="ignore")
drop_columns(df, cols) ==
    [i \in 1..Len(df) |-> [c \in DOMAIN df[i] \ cols |-> df[i][c]]]

(***************************************************************************)
(* Inputs of the matcher.                                                   *)
(***************************************************************************)
MaxOrders == 2
MaxLabels == 2
MaxRuns == 2

Zip90 == <<"9","0">>
Zip91 == <<"9","1">>
AddrMain == <<"1"," ","M","a","i","n">>
AddrMainAlt == <<"1","M","A","I","N",".">>
AddrHash == <<"#">>
NameJO == <<"J"," ","O">>
NameJoe == <<"J","o","e">>
NameJo == <<"J","o">>
NameJay == <<"J","a","y">>

\* rows as parse_order_details_pdfs builds them (the columns the matcher reads,
\* and order_id standing for the columns it does not read)
OrderPool ==
    { [order_id |-> <<"1">>, ship_to_name |-> NameJO, address_line1 |-> AddrMain, zip |-> Zip90],
      [order_id |-> <<"2">>, ship_to_name |-> <<>>,   address_line1 |-> AddrMain, zip |-> Zip90],
      [order_id |-> <<"3">>, ship_to_name |-> NameJO, address_line1 |-> AddrMain, zip |-> <<>>],
      [order_id |-> <<"4">>, ship_to_name |-> NameJO, address_line1 |-> AddrHash, zip |-> Zip90],
      [order_id |-> <<"5">>, ship_to_name |-> NameJo, address_line1 |-> AddrMainAlt, zip |-> Zip91] }

\* label pages as _extract_label_from_page returns them (zip never empty)
LabelPool ==
    { [recipient_name |-> NameJoe, address_line1 |-> AddrMainAlt, zip |-> Zip90],
      [recipient_name |-> NameJo,  address_line1 |-> AddrMain,    zip |-> Zip90],
      [recipient_name |-> NameJay, address_line1 |-> AddrMain,    zip |-> Zip91],
      [recipient_name |-> NameJo,  address_line1 |-> AddrHash,    zip |-> Zip90] }

\* parse_shipping_label_pdfs: label_id = f"pdf{file_idx}_page_{page_idx}"
label_id_of(f, p) == <<"pdf", f, "_page_", p>>

\* the labels frame of one label document whose pages are all labels
labels_frame(cores) ==
    [i \in 1..Len(cores) |-> cores[i] @@ [label_id |-> label_id_of(0, i - 1)]]

StatusMissing == "Missing"
StatusMatched == "Matched"
HelperColumns == {"norm_addr1", "norm_zip"}

(***************************************************************************)
(* match_orders_to_labels                                                   *)
(***************************************************************************)
\* lines 20-24 and 26-30: the helper columns norm_addr1 and norm_zip
with_helper_columns(df) ==
    assign_column(
        assign_column(df, "norm_addr1",
                      [i \in 1..Len(df) |-> normalize_for_match(df[i].address_line1)]),
        "norm_zip", [i \in 1..Len(df) |-> df[i].zip])

\* no copy: the local name is the caller's frame
caller_labels_aliased(caller, local) == local

\* line 20: labels_df = labels_df.copy() rebinds the local name to a copy, so
\* the helper columns of lines 21-24 go to the copy, not to the caller's frame
caller_labels_after_prepare(caller, local) == caller

\* line 26: orders_df = orders_df.copy()
caller_orders_after_prepare(caller, local) == caller

\* the name comparison of lines 43-46 left out
label_qualifies_without_name(row, lab) ==
    /\ row.norm_zip # << >> /\ row.norm_zip = lab.norm_zip
    /\ row.norm_addr1 # << >> /\ row.norm_addr1 = lab.norm_addr1

\* lines 39-46: the three nested conditions on one (order row, label row)
label_qualifies(row, lab) ==
    /\ row.norm_zip # <<>> /\ row.norm_zip = lab.norm_zip
    /\ row.norm_addr1 # <<>> /\ row.norm_addr1 = lab.norm_addr1
    /\ fuzzy_equal(row_get(row, "ship_to_name", <<>>),
                   row_get(lab, "recipient_name", <<>>))

\* line 36 left out: only the label identifier is reset for a new row
row_start_accumulator_id_only(prev_label_id, prev_status) == <<<< >>, prev_status>>

\* the accumulator initialised once, before the outer loop
row_start_accumulator_kept(prev_label_id, prev_status) == <<prev_label_id, prev_status>>

\* lines 35-36: the accumulator <<best_label_id, status>> a row starts from
row_start_accumulator(prev_label_id, prev_status) == <<<< >>, StatusMissing>>

\* no break: the scan goes on and a later qualifying label overwrites the match
scan_after_match_no_break(j) == <<"scan", j + 1>>

\* lines 47-49: the match is recorded and break leaves the inner loop;
\* <<next position of the call, next label position>>
scan_after_match(j) == <<"append", j>>

\* line 17 left out
missing_annotation_status_only(df) ==
    assign_column(df, "shipping_label_status", [i \in 1..Len(df) |-> StatusMissing])

\* lines 15-17: the short-circuit annotation of a copy of the orders
missing_annotation(df) ==
    assign_column(
        assign_column(df, "shipping_label_status",
                      [i \in 1..Len(df) |-> StatusMissing]),
        "matched_label_id", [i \in 1..Len(df) |-> << >>])

\* line 57: the helper columns are dropped from the result
drop_helper_columns(df) == drop_columns(df, HelperColumns)

MatchIdle ==
    /\ callerOrders = <<>> /\ callerLabels = <<>> /\ orders_df = <<>>
    /\ labels_df = <<>> /\ label_map = <<>> /\ rowIdx = 0 /\ labIdx = 0
    /\ best_label_id = <<>> /\ status = StatusMissing /\ compared = 0
    /\ matchResult = <<>> /\ prevResult = <<>> /\ runs = 0 /\ mpc = "idle"

SplitIdle == full_text = <<>> /\ parts = <<>> /\ segments = <<>> /\ spc = "idle"

ExpandIdle == filtered = <<>> /\ expanded = <<>> /\ epc = "idle"

OrderIdle ==
    /\ segment = <<>> /\ info = <<>> /\ cust = <<>> /\ record = <<>> /\ xpc = "idle"

BoardIdle ==
    board_raw = <<>> /\ board_once = <<>> /\ board_twice = <<>> /\ bpc = "idle"

PageIdle == page_text = <<>> /\ label_core = <<>> /\ lpc = "idle"

FuzzyIdle ==
    /\ name_a = <<>> /\ name_b = <<>> /\ equal_ab = FALSE /\ equal_ba = FALSE
    /\ fpc = "idle"

ParseIdle ==
    /\ parser = "none" /\ uploaded_files = <<>> /\ file_idx = 0 /\ unit_idx = 0
    /\ collected = <<>> /\ call_state = "idle" /\ ppc = "idle"

ShipIdle == seg_lines = <<>> /\ shipping = <<>> /\ hpc = "idle"

LaterIdle == BoardIdle /\ PageIdle /\ FuzzyIdle /\ ParseIdle /\ ShipIdle

(***************************************************************************)
(* fuzzy_equal applied to a pair of names in both orders.                   *)
(***************************************************************************)
MaxNameLen == 5

NameChars == {"a", "b"}

\* names with capitals, blanks and punctuation, and names of no letters
OtherNames ==
    { <<"A"," ","b">>, <<" ">>, <<"-">>, <<"A","b","-","a","B"," ","a">> }

FuzzyNames == SeqsUpTo(NameChars, MaxNameLen) \cup OtherNames

FuzzyInit ==
    /\ name_a \in FuzzyNames /\ name_b \in FuzzyNames
    /\ equal_ab = FALSE /\ equal_ba = FALSE /\ fpc = "pair"
    /\ MatchIdle /\ SplitIdle /\ ExpandIdle /\ OrderIdle /\ BoardIdle /\ PageIdle /\ ParseIdle /\ ShipIdle

FuzzyEqualAB ==
    /\ fpc = "pair"
    /\ equal_ab' = fuzzy_equal(name_a, name_b)
    /\ fpc' = "ab"
    /\ UNCHANGED <<name_a, name_b, equal_ba>>

FuzzyEqualBA ==
    /\ fpc = "ab"
    /\ equal_ba' = fuzzy_equal(name_b, name_a)
    /\ fpc' = "done"
    /\ UNCHANGED <<name_a, name_b, equal_ab>>

FuzzyNext == FuzzyEqualAB \/ FuzzyEqualBA

SpecFuzzy ==
    FuzzyInit /\ [][FuzzyNext /\ UNCHANGED <<matchVars, splitVars, expandVars, orderVars, boardVars, pageVars, parseVars, shipVars>>]_vars

MatchInit ==
    /\ callerOrders \in SeqsUpTo(OrderPool, MaxOrders)
    /\ callerLabels \in {labels_frame(c) : c \in SeqsUpTo(LabelPool, MaxLabels)}
    /\ orders_df = callerOrders
    /\ labels_df = callerLabels
    /\ label_map = <<>>
    /\ rowIdx = 0
    /\ labIdx = 0
    /\ best_label_id = <<>>
    /\ status = StatusMissing
    /\ compared = 0
    /\ matchResult = <<>>
    /\ prevResult = <<>>
    /\ runs = 1
    /\ mpc = "start"
    /\ SplitIdle /\ ExpandIdle /\ OrderIdle /\ LaterIdle

\* lines 14-18: an empty frame short-circuits
ShortCircuit ==
    /\ mpc = "start"
    /\ orders_df = <<>> \/ labels_df = <<>>
    /\ orders_df' = missing_annotation(orders_df)
    /\ matchResult' = orders_df'
    /\ mpc' = "done"
    /\ UNCHANGED <<callerOrders, callerLabels, labels_df, label_map, rowIdx, labIdx,
                   best_label_id, status, compared, prevResult, runs>>

\* lines 20-32: copies, helper columns, empty label_map
Prepare ==
    /\ mpc = "start"
    /\ orders_df # <<>> /\ labels_df # <<>>
    /\ labels_df' = with_helper_columns(labels_df)
    /\ callerLabels' = caller_labels_after_prepare(callerLabels, labels_df')
    /\ orders_df' = with_helper_columns(orders_df)
    /\ callerOrders' = caller_orders_after_prepare(callerOrders, orders_df')
    /\ label_map' = <<>>
    /\ rowIdx' = 1
    /\ mpc' = "row"
    /\ UNCHANGED <<labIdx, best_label_id, status, compared, matchResult,
                   prevResult, runs>>

\* lines 34-36: next order row
RowStart ==
    /\ mpc = "row"
    /\ rowIdx <= Len(orders_df)
    /\ best_label_id' = row_start_accumulator(best_label_id, status)[1]
    /\ status' = row_start_accumulator(best_label_id, status)[2]
    /\ labIdx' = 1
    /\ mpc' = "scan"
    /\ UNCHANGED <<callerOrders, callerLabels, orders_df, labels_df, label_map,
                   rowIdx, compared, matchResult, prevResult, runs>>

\* lines 38-49: one label compared with the current row
Compare ==
    /\ mpc = "scan"
    /\ labIdx <= Len(labels_df)
    /\ compared' = compared + 1
    /\ IF label_qualifies(orders_df[rowIdx], labels_df[labIdx])
       THEN /\ best_label_id' = labels_df[labIdx].label_id
            /\ status' = StatusMatched
            /\ mpc' = scan_after_match(labIdx)[1]
            /\ labIdx' = scan_after_match(labIdx)[2]
       ELSE /\ labIdx' = labIdx + 1
            /\ UNCHANGED <<best_label_id, status, mpc>>
    /\ UNCHANGED <<callerOrders, callerLabels, orders_df, labels_df, label_map,
                   rowIdx, matchResult, prevResult, runs>>

\* line 38 exhausted, or line 49 taken
ScanEnd ==
    /\ mpc = "scan"
    /\ labIdx > Len(labels_df)
    /\ mpc' = "append"
    /\ UNCHANGED <<callerOrders, callerLabels, orders_df, labels_df, label_map,
                   rowIdx, labIdx, best_label_id, status, compared, matchResult,
                   prevResult, runs>>

\* line 51
AppendLabelMap ==
    /\ mpc = "append"
    /\ label_map' = Append(label_map, <<best_label_id, status>>)
    /\ rowIdx' = rowIdx + 1
    /\ mpc' = "row"
    /\ UNCHANGED <<callerOrders, callerLabels, orders_df, labels_df, labIdx,
                   best_label_id, status, compared, matchResult, prevResult, runs>>

\* lines 53-58
FinishMatch ==
    /\ mpc = "row"
    /\ rowIdx > Len(orders_df)
    /\ orders_df' = drop_helper_columns(
                        assign_column(
                            assign_column(orders_df, "matched_label_id",
                                          [i \in 1..Len(orders_df) |-> label_map[i][1]]),
                            "shipping_label_status",
                            [i \in 1..Len(orders_df) |-> label_map[i][2]]))
    /\ matchResult' = orders_df'
    /\ mpc' = "done"
    /\ UNCHANGED <<callerOrders, callerLabels, labels_df, label_map, rowIdx, labIdx,
                   best_label_id, status, compared, prevResult, runs>>

\* app.py line 87 run again with the frames the caller still holds
CallAgain ==
    /\ mpc = "done"
    /\ runs < MaxRuns
    /\ prevResult' = matchResult
    /\ runs' = runs + 1
    /\ orders_df' = callerOrders
    /\ labels_df' = callerLabels
    /\ label_map' = <<>>
    /\ rowIdx' = 0
    /\ labIdx' = 0
    /\ best_label_id' = <<>>
    /\ status' = StatusMissing
    /\ compared' = 0
    /\ matchResult' = <<>>
    /\ mpc' = "start"
    /\ UNCHANGED <<callerOrders, callerLabels>>

MatchNext ==
    \/ ShortCircuit
    \/ Prepare
    \/ RowStart
    \/ Compare
    \/ ScanEnd
    \/ AppendLabelMap
    \/ FinishMatch
    \/ CallAgain

SpecMatch ==
    MatchInit /\ [][MatchNext /\ UNCHANGED <<splitVars, expandVars, orderVars, laterVars>>]_vars

(***************************************************************************)
(* Regular-expression primitives (module re), evaluated as the engine does: *)
(* positions are 1-based, p = Len(t) + 1 is the end of the text.            *)
(***************************************************************************)
\* the literal lit at position p
starts_with(t, p, lit) ==
    /\ p + Len(lit) - 1 <= Len(t)
    /\ \A d \in 1..Len(lit) : t[p + d - 1] = lit[d]

\* the literal lit at position p under re.IGNORECASE
starts_with_nocase(t, p, lit) ==
    /\ p + Len(lit) - 1 <= Len(t)
    /\ \A d \in 1..Len(lit) : lower_char(t[p + d - 1]) = lower_char(lit[d])

\* \s* (greedy) from position p: the first position at or after p that holds
\* no whitespace
skip_whitespace(t, p) ==
    SetMin({q \in p..(Len(t) + 1) : q = Len(t) + 1 \/ t[q] \notin Whitespace})

\* \d{n} at position p
digits_at(t, p, n) ==
    /\ p + n - 1 <= Len(t)
    /\ \A d \in 0..(n - 1) : t[p + d] \in Digits

\* "lit in t"
contains(t, lit) == \E p \in 1..Len(t) : starts_with(t, p, lit)

RECURSIVE flatten(_)
\* "".join(pieces)
flatten(pieces) ==
    IF pieces = << >> THEN << >> ELSE Head(pieces) \o flatten(Tail(pieces))

(***************************************************************************)
(* Lines, the postal-code pattern and extract_city_state_zip.               *)
(***************************************************************************)
\* line boundaries of str.splitlines (ASCII part)
LineBreaks == {"\n", "\r", "\f"}

RECURSIVE splitlines(_)
\* str.splitlines(): "\r\n" is one boundary, no empty line after a final one
splitlines(t) ==
    IF t = << >> THEN << >>
    ELSE LET B == {q \in 1..Len(t) : t[q] \in LineBreaks}
         IN  IF B = {} THEN <<t>>
             ELSE LET q == SetMin(B)
                      n == IF t[q] = "\r" /\ q < Len(t) /\ t[q + 1] = "\n"
                           THEN q + 2 ELSE q + 1
                  IN  <<SubSeq(t, 1, q - 1)>> \o splitlines(SubSeq(t, n, Len(t)))

is_word_at(t, p) == p >= 1 /\ p <= Len(t) /\ t[p] \in WordChars

\* \b between positions p - 1 and p
word_boundary(t, p) == is_word_at(t, p - 1) # is_word_at(t, p)

ZipDigits == 5
ZipExtensionDigits == 4

\* \d{5}(?:-\d{4})?\b at position p: the position after the match, the
\* extension tried first; 0 when there is no match at p
zip_end(t, p) ==
    IF ~digits_at(t, p, ZipDigits) THEN 0
    ELSE IF /\ p + ZipDigits <= Len(t) /\ t[p + ZipDigits] = "-"
            /\ digits_at(t, p + ZipDigits + 1, ZipExtensionDigits)
            /\ word_boundary(t, p + ZipDigits + 1 + ZipExtensionDigits)
         THEN p + ZipDigits + 1 + ZipExtensionDigits
    ELSE IF word_boundary(t, p + ZipDigits) THEN p + ZipDigits
    ELSE 0

\* re.search(r"\b\d{5}(?:-\d{4})?\b", l)
has_zip(l) == \E p \in 1..Len(l) : word_boundary(l, p) /\ zip_end(l, p) > 0

StateLetters == 2

\* ([A-Z]{2})\s+(\d{5}(?:-\d{4})?)\b at position p: the position after the
\* match, 0 when there is none
state_zip_end(l, p) ==
    IF /\ p + StateLetters - 1 <= Len(l)
       /\ \A d \in 0..(StateLetters - 1) : l[p + d] \in UpperSet
    THEN LET q == skip_whitespace(l, p + StateLetters)
         IN  IF q > p + StateLetters THEN zip_end(l, q) ELSE 0
    ELSE 0

\* the groups (city, state, zip) when the state starts at position s and
\* group 1 is the first e characters
csz_groups(l, e, s) ==
    LET q == skip_whitespace(l, s + StateLetters)
    IN  << strip(SubSeq(l, 1, e)),
           SubSeq(l, s, s + StateLetters - 1),
           SubSeq(l, q, zip_end(l, q) - 1) >>

\* "." does not match a newline
no_newline(l, e) == \A i \in 1..e : l[i] # "\n"

\* helpers.extract_city_state_zip
extract_city_state_zip(line) ==
    LET l == safe_strip(line)
        \* ^(.*?),\s*([A-Z]{2})\s+(zip)\b : the comma ends the lazy group 1
        WithComma == {c \in 1..Len(l) :
                        /\ l[c] = "," /\ no_newline(l, c - 1)
                        /\ state_zip_end(l, skip_whitespace(l, c + 1)) > 0}
        \* ^(.*?)\s+([A-Z]{2})\s+(zip)\b : e is the length of the lazy group 1
        NoComma == {e \in 0..Len(l) :
                        /\ no_newline(l, e)
                        /\ skip_whitespace(l, e + 1) > e + 1
                        /\ state_zip_end(l, skip_whitespace(l, e + 1)) > 0}
    IN  IF WithComma # {}
        THEN LET c == SetMin(WithComma)
             IN  csz_groups(l, c - 1, skip_whitespace(l, c + 1))
        ELSE IF NoComma # {}
        THEN LET e == SetMin(NoComma)
             IN  csz_groups(l, e, skip_whitespace(l, e + 1))
        ELSE << << >>, << >>, << >> >>

(***************************************************************************)
(* _extract_label_from_page                                                 *)
(***************************************************************************)
NoLabel == << >>

IsNonEmpty(l) == l # << >>

\* one line fewer is required: the name and one more line are enough
MinLabelLinesTwo == 3 - 1
MinLabelLines == 3
CszSearchLines == 10

\* shipping_parser._extract_label_from_page
extract_label_from_page(text) ==
    LET raw_lines == splitlines(text)
        lines == [i \in 1..Len(raw_lines) |-> safe_strip(raw_lines[i])]
        non_empty == SelectSeq(lines, IsNonEmpty)
        searched == IF Len(non_empty) < CszSearchLines
                    THEN Len(non_empty) ELSE CszSearchLines
        Z == {i \in 1..searched : has_zip(non_empty[i])}
        csz_line == IF Z = {} THEN << >> ELSE non_empty[SetMin(Z)]
        csz == extract_city_state_zip(csz_line)
    IN  IF Len(non_empty) < MinLabelLines THEN NoLabel
        ELSE IF csz[3] = << >> THEN NoLabel
        ELSE [ recipient_name |-> non_empty[1],
               address_line1 |-> non_empty[2],
               city |-> csz[1], state |-> csz[2], zip |-> csz[3] ]

MaxPageLines == 3
MaxLeadingLines == 9

\* a line of carrier text printed above the address on some pages
LeadingLine == <<"U","S","P","S","\n">>

\* lines of the text of a label page
PageLines ==
    { <<"J","o"," ","D","o","e","\n">>,
      <<"1"," ","M","a","i","n"," ","S","t","\n">>,
      <<"1","2","3","4","5"," ","O","a","k"," ","R","d","\n">>,
      <<"R","e","n","o",","," ","N","V"," ","8","9","5","0","1","\n">>,
      <<"R","e","n","o"," ","N","V"," ","8","9","5","0","1","-","1","2","3","4","\n">>,
      <<"R","e","n","o",","," ","n","v"," ","8","9","5","0","1","\n">>,
      <<"B","o","x"," ","8","9","5","0","1","1","\n">>,
      <<" "," ","\n">> }

PageTexts ==
    { flatten([i \in 1..k |-> LeadingLine]) \o flatten(c) :
        k \in 0..MaxLeadingLines, c \in SeqsUpTo(PageLines, MaxPageLines) }

PageInit ==
    /\ page_text \in PageTexts
    /\ label_core = NoLabel /\ lpc = "page"
    /\ MatchIdle /\ SplitIdle /\ ExpandIdle /\ OrderIdle /\ BoardIdle /\ FuzzyIdle /\ ParseIdle /\ ShipIdle

ExtractLabelFromPage ==
    /\ lpc = "page"
    /\ label_core' = extract_label_from_page(page_text)
    /\ lpc' = "done"
    /\ UNCHANGED page_text

PageNext == ExtractLabelFromPage

SpecPage ==
    PageInit /\ [][PageNext /\ UNCHANGED <<matchVars, splitVars, expandVars, orderVars, boardVars, fuzzyVars, parseVars, shipVars>>]_vars

(***************************************************************************)
(* parse_order_details_pdfs and parse_shipping_label_pdfs over a batch of   *)
(* documents.  A document either cannot be read or holds units (the order   *)
(* chunks of its text, or its pages); extracting a unit gives a record or   *)
(* raises.                                                                  *)
(***************************************************************************)
MaxFiles == 2
MaxUnits == 2

\* a unit whose extraction raises
RaisingUnit == "X"
\* units whose extraction gives a record
GoodUnits == {"A", "B"}
UnitPool == GoodUnits \cup {RaisingUnit}

\* a document that cannot be read is given the units it would have shown
Documents ==
    {[read_ok |-> TRUE, units |-> u] : u \in SeqsUpTo(UnitPool, MaxUnits)}
        \cup {[read_ok |-> FALSE, units |-> <<"A">>]}

\* the record appended for a unit: an order record holds what was extracted
\* from the chunk; a label also holds label_id, source_file_index, page_index
record_of(which, f, u, unit) ==
    IF which = "orders" THEN [content |-> unit]
    ELSE [content |-> unit, label_id |-> label_id_of(f, u),
          source_file_index |-> f, page_index |-> u]

\* the except branch of a failed read skips the rest of the batch
file_after_read_failure_break(f, n) == n
\* except ...: continue
file_after_read_failure(f, n) == f + 1

ParseInit ==
    /\ parser \in {"orders", "labels"}
    /\ uploaded_files \in SeqsUpTo(Documents, MaxFiles)
    /\ file_idx = 0 /\ unit_idx = 0 /\ collected = << >>
    /\ call_state = "running" /\ ppc = "file"
    /\ MatchIdle /\ SplitIdle /\ ExpandIdle /\ OrderIdle
    /\ BoardIdle /\ PageIdle /\ FuzzyIdle /\ ShipIdle

\* reading the document raises inside the try: the document is skipped
ReadFails ==
    /\ call_state = "running" /\ ppc = "file"
    /\ file_idx < Len(uploaded_files)
    /\ ~uploaded_files[file_idx + 1].read_ok
    /\ file_idx' = file_after_read_failure(file_idx, Len(uploaded_files))
    /\ UNCHANGED <<parser, uploaded_files, unit_idx, collected, call_state, ppc>>

\* the document is read; its chunks / pages are gone through next
ReadSucceeds ==
    /\ call_state = "running" /\ ppc = "file"
    /\ file_idx < Len(uploaded_files)
    /\ uploaded_files[file_idx + 1].read_ok
    /\ unit_idx' = 0 /\ ppc' = "units"
    /\ UNCHANGED <<parser, uploaded_files, file_idx, collected, call_state>>

CurrentUnits == uploaded_files[file_idx + 1].units

\* one chunk / page is extracted and its record appended
ExtractUnit ==
    /\ call_state = "running" /\ ppc = "units"
    /\ unit_idx < Len(CurrentUnits)
    /\ CurrentUnits[unit_idx + 1] # RaisingUnit
    /\ collected' = Append(collected,
            record_of(parser, file_idx, unit_idx, CurrentUnits[unit_idx + 1]))
    /\ unit_idx' = unit_idx + 1
    /\ UNCHANGED <<parser, uploaded_files, file_idx, call_state, ppc>>

\* parse_shipping_label_pdfs: except Exception: continue
PageFailureSkipped ==
    /\ call_state = "running" /\ ppc = "units" /\ parser = "labels"
    /\ unit_idx < Len(CurrentUnits)
    /\ CurrentUnits[unit_idx + 1] = RaisingUnit
    /\ unit_idx' = unit_idx + 1
    /\ UNCHANGED <<parser, uploaded_files, file_idx, collected, call_state, ppc>>

\* parse_order_details_pdfs: no handler encloses the loop over the chunks
ChunkFailurePropagates ==
    /\ call_state = "running" /\ ppc = "units" /\ parser = "orders"
    /\ unit_idx < Len(CurrentUnits)
    /\ CurrentUnits[unit_idx + 1] = RaisingUnit
    /\ call_state' = "raised" /\ collected' = << >> /\ ppc' = "done"
    /\ UNCHANGED <<parser, uploaded_files, file_idx, unit_idx>>

EndOfDocument ==
    /\ call_state = "running" /\ ppc = "units"
    /\ unit_idx = Len(CurrentUnits)
    /\ file_idx' = file_idx + 1 /\ ppc' = "file"
    /\ UNCHANGED <<parser, uploaded_files, unit_idx, collected, call_state>>

\* the frame of the collected records is returned
ReturnFrame ==
    /\ call_state = "running" /\ ppc = "file"
    /\ file_idx = Len(uploaded_files)
    /\ call_state' = "returned" /\ ppc' = "done"
    /\ UNCHANGED <<parser, uploaded_files, file_idx, unit_idx, collected>>

ParseNext ==
    \/ ReadFails \/ ReadSucceeds \/ ExtractUnit \/ PageFailureSkipped
    \/ ChunkFailurePropagates \/ EndOfDocument \/ ReturnFrame

SpecParse ==
    ParseInit /\ [][ParseNext /\ UNCHANGED <<matchVars, splitVars, expandVars, orderVars, boardVars, pageVars, fuzzyVars, shipVars>>]_vars

(***************************************************************************)
(* _extract_shipping_block                                                  *)
(***************************************************************************)
ShipToColon == <<"s","h","i","p"," ","t","o",":">>
ShipToWords == <<"s","h","i","p"," ","t","o">>
CountryWords ==
    { <<"u","n","i","t","e","d"," ","s","t","a","t","e","s">>, <<"u","s","a">>, <<"c","a","n","a","d","a">>, <<"m","e","x","i","c","o">> }

\* lines idx+1 .. idx+6 after the anchor are looked at
BlockSpan == 6

NoAnchor == 0

\* lines 35-39: the position of the first 'ship to' line, NoAnchor if none
ship_to_index(lines) ==
    LET A == {i \in 1..Len(lines) :
                \/ contains(lower(lines[i]), ShipToColon)
                \/ lower(strip(lines[i])) = ShipToWords}
    IN  IF A = {} THEN NoAnchor ELSE SetMin(A)

\* line 50: the stripped non-empty lines among the BlockSpan lines after idx
shipping_block(lines, idx) ==
    LET last == IF idx + BlockSpan < Len(lines) THEN idx + BlockSpan ELSE Len(lines)
        span == [k \in 1..(last - idx) |-> strip(lines[idx + k])]
    IN  SelectSeq(span, IsNonEmpty)

\* the city/state/zip line is looked for from the third block line on
csz_candidates_after_address(block) == SubSeq(block, 3, Len(block))
\* line 59: for l in block[1:]
csz_candidates(block) == SubSeq(block, 2, Len(block))

\* lines 58-62: the first candidate holding a postal code, "" if none
first_zip_line(cands) ==
    LET Z == {i \in 1..Len(cands) : has_zip(cands[i])}
    IN  IF Z = {} THEN << >> ELSE cands[SetMin(Z)]

\* order_parser._extract_shipping_block
extract_shipping_block(lines) ==
    LET idx == ship_to_index(lines)
        block == IF idx = NoAnchor THEN << >> ELSE shipping_block(lines, idx)
        csz_line == first_zip_line(csz_candidates(block))
        csz == IF csz_line # << >> THEN extract_city_state_zip(csz_line)
               ELSE << << >>, << >>, << >> >>
        country_candidate == IF block # << >> THEN block[Len(block)] ELSE << >>
    IN  [ ship_to_name |-> IF block # << >> THEN block[1] ELSE << >>,
          address_line1 |-> IF Len(block) >= 2 THEN block[2] ELSE << >>,
          city |-> csz[1], state |-> csz[2], zip |-> csz[3],
          country |-> IF \E w \in CountryWords :
                             contains(lower(country_candidate), w)
                      THEN country_candidate ELSE << >> ]

MaxBlockLines == 4

\* what stands before the shipping lines of a chunk
ShipHeads ==
    { << >>,
      <<"S","h","i","p"," ","T","o",":","\n">>,
      <<"O","r","d","e","r"," ","I","D",":"," ","1","\n"," ","S","H","I","P"," ","T","O"," ","\n">> }

\* lines of the shipping part of a chunk
ShipLines ==
    { <<"J","o"," ","D","o","e","\n">>,
      <<"1"," ","M","a","i","n"," ","S","t","\n">>,
      <<"1","2","3","4","5"," ","O","a","k"," ","R","d","\n">>,
      <<"R","e","n","o",","," ","N","V"," ","8","9","5","0","1","\n">>,
      <<"U","n","i","t","e","d"," ","S","t","a","t","e","s","\n">>,
      <<" ","\n">> }

ShipInit ==
    /\ seg_lines \in {splitlines(h \o flatten(c)) :
                        h \in ShipHeads, c \in SeqsUpTo(ShipLines, MaxBlockLines)}
    /\ shipping = << >> /\ hpc = "lines"
    /\ MatchIdle /\ SplitIdle /\ ExpandIdle /\ OrderIdle
    /\ BoardIdle /\ PageIdle /\ FuzzyIdle /\ ParseIdle

ExtractShippingBlock ==
    /\ hpc = "lines"
    /\ shipping' = extract_shipping_block(seg_lines)
    /\ hpc' = "done"
    /\ UNCHANGED seg_lines

ShipNext == ExtractShippingBlock

SpecShip ==
    ShipInit /\ [][ShipNext /\ UNCHANGED <<matchVars, splitVars, expandVars, orderVars, boardVars, pageVars, fuzzyVars, parseVars>>]_vars

(***************************************************************************)
(* _split_segments                                                          *)
(***************************************************************************)
OrderIdLabel ==
    <<"O","r","d","e","r"," ","I","D",":">>

\* the digit groups of \d{3}-\d{7}-\d{7}
OrderIdGroups == <<3, 7, 7>>

\* the pattern with \s* left out: Order ID:\d{3}-\d{7}-\d{7}
order_marker_at_no_space(t, p) ==
    /\ starts_with(t, p, OrderIdLabel)
    /\ LET q == p + Len(OrderIdLabel)
           g == OrderIdGroups
       IN  /\ digits_at(t, q, g[1])
           /\ starts_with(t, q + g[1], <<"-">>)
           /\ digits_at(t, q + g[1] + 1, g[2])
           /\ starts_with(t, q + g[1] + 1 + g[2], <<"-">>)
           /\ digits_at(t, q + g[1] + 1 + g[2] + 1, g[3])

\* line 21: Order ID:\s*\d{3}-\d{7}-\d{7} matches at position p
order_marker_at(t, p) ==
    /\ starts_with(t, p, OrderIdLabel)
    /\ LET q == skip_whitespace(t, p + Len(OrderIdLabel))
           g == OrderIdGroups
       IN  /\ digits_at(t, q, g[1])
           /\ starts_with(t, q + g[1], <<"-">>)
           /\ digits_at(t, q + g[1] + 1, g[2])
           /\ starts_with(t, q + g[1] + 1 + g[2], <<"-">>)
           /\ digits_at(t, q + g[1] + 1 + g[2] + 1, g[3])

\* line 21: re.split on the zero-width pattern (?=marker): the text is cut
\* before every position where the marker matches; a match at the very start
\* leaves an empty first part
re_split_before_markers(t) ==
    LET cuts == {p \in 1..Len(t) : order_marker_at(t, p)}
        starts == {1} \cup cuts
        nth(k) == CHOOSE p \in starts : Cardinality({q \in starts : q < p}) = k - 1
        n == Cardinality(starts)
        body == [k \in 1..n |->
                    SubSeq(t, nth(k), IF k = n THEN Len(t) ELSE nth(k + 1) - 1)]
    IN  IF 1 \in cuts THEN << << >> >> \o body ELSE body

\* line 22: [p for p in parts if "Order ID:" in p]
keep_marked_parts(ps) ==
    LET HasLabel(part) == contains(part, OrderIdLabel)
    IN  SelectSeq(ps, HasLabel)

MaxPieces == 3

\* what the pages of an order document are put together from
ValidOrderNumber ==
    <<"1","1","1","-","2","2","2","2","2","2","2","-","3","3","3","3","3",
      "3","3">>
ShortOrderNumber ==
    <<"1","1","1","-","2","2","2","2","2","2","-","3","3","3","3","3","3",
      "3">>

SplitPieces ==
    { OrderIdLabel, ValidOrderNumber, ShortOrderNumber, <<" ">>, <<"x", "\n">>,
      OrderIdLabel \o ValidOrderNumber,
      OrderIdLabel \o <<" ", "\n">> \o ValidOrderNumber,
      <<"o","r","d","e","r"," ","i","d",":">> }

SplitInit ==
    /\ full_text \in {flatten(ps) : ps \in SeqsUpTo(SplitPieces, MaxPieces)}
    /\ parts = << >>
    /\ segments = << >>
    /\ spc = "start"
    /\ MatchIdle /\ ExpandIdle /\ OrderIdle /\ LaterIdle

\* line 21
SplitText ==
    /\ spc = "start"
    /\ parts' = re_split_before_markers(full_text)
    /\ spc' = "filter"
    /\ UNCHANGED <<full_text, segments>>

\* lines 22-23
FilterParts ==
    /\ spc = "filter"
    /\ segments' = keep_marked_parts(parts)
    /\ spc' = "done"
    /\ UNCHANGED <<full_text, parts>>

SplitNext == SplitText \/ FilterParts

SpecSplit ==
    SplitInit /\ [][SplitNext /\ UNCHANGED <<matchVars, expandVars, orderVars, laterVars>>]_vars

(***************************************************************************)
(* expand_by_quantity.  The frame the caller passes is a filtered view of   *)
(* the parsed orders: rows keep their index labels, which are unique but    *)
(* need not be consecutive.  A frame is a sequence of [idx, row].           *)
(***************************************************************************)
MaxIndexLabel == 2
MaxQuantity == 2

\* rows of the filtered frame (app.py lines 150-172): quantity is the integer
\* of order_parser.py line 322, parsed from \d+
ExpandRows ==
    [order_id : {<<"1">>, <<"2">>}, quantity : 0..MaxQuantity]

ExpandFrames ==
    UNION { { [k \in 1..Cardinality(I) |->
                 [idx |-> CHOOSE x \in I : Cardinality({y \in I : y < x}) = k - 1,
                  row |-> rs[k]]] :
              rs \in [1..Cardinality(I) -> ExpandRows] } :
            I \in SUBSET (0..MaxIndexLabel) }

\* line 17: df["quantity"].fillna(1).astype(int) on an integer column
coerce_quantity(q) == q

RECURSIVE repeat_value(_, _)
repeat_value(x, n) == IF n <= 0 THEN << >> ELSE <<x>> \o repeat_value(x, n - 1)

\* df.index.repeat with every count taken as 1
index_repeat_once(df) == [k \in 1..Len(df) |-> df[k].idx]

\* line 18: df.index.repeat(df["quantity"])
index_repeat(df) ==
    flatten([k \in 1..Len(df) |-> repeat_value(df[k].idx, df[k].row.quantity)])

\* line 18: df.loc[labels]: for each label in turn, the rows carrying it
loc_rows(df, labels) ==
    LET HasLabel(l) == LET Test(r) == r.idx = l IN SelectSeq(df, Test)
    IN  flatten([n \in 1..Len(labels) |-> HasLabel(labels[n])])

\* line 19: reset_index(drop=True): positions become the index, no column added
reset_index_drop(df) == [n \in 1..Len(df) |-> [idx |-> n - 1, row |-> df[n].row]]

ExpandInit ==
    /\ filtered \in ExpandFrames
    /\ expanded = << >>
    /\ epc = "start"
    /\ MatchIdle /\ SplitIdle /\ OrderIdle /\ LaterIdle

\* lines 13-14: an empty frame is returned as it is
ExpandEmpty ==
    /\ epc = "start"
    /\ filtered = << >>
    /\ expanded' = filtered
    /\ epc' = "done"
    /\ UNCHANGED filtered

\* lines 16-17: copy, quantity coerced to int (the caller's frame is not touched)
ExpandCoerce ==
    /\ epc = "start"
    /\ filtered # << >>
    /\ expanded' = [k \in 1..Len(filtered) |->
                      [idx |-> filtered[k].idx,
                       row |-> [filtered[k].row EXCEPT
                                   !.quantity = coerce_quantity(@)]]]
    /\ epc' = "repeat"
    /\ UNCHANGED filtered

\* line 18
ExpandRepeat ==
    /\ epc = "repeat"
    /\ expanded' = loc_rows(expanded, index_repeat(expanded))
    /\ epc' = "reset"
    /\ UNCHANGED filtered

\* lines 19-20
ExpandReset ==
    /\ epc = "reset"
    /\ expanded' = reset_index_drop(expanded)
    /\ epc' = "done"
    /\ UNCHANGED filtered

ExpandNext == ExpandEmpty \/ ExpandCoerce \/ ExpandRepeat \/ ExpandReset

SpecExpand ==
    ExpandInit /\ [][ExpandNext /\ UNCHANGED <<matchVars, splitVars, orderVars, laterVars>>]_vars

(***************************************************************************)
(* Order field extraction: _extract_order_info (quantity),                  *)
(* _extract_customization and the record parse_order_details_pdfs builds    *)
(* from them.                                                               *)
(***************************************************************************)
DigitChars == <<"0","1","2","3","4","5","6","7","8","9">>

digit_value(c) == (CHOOSE n \in 1..10 : DigitChars[n] = c) - 1

RECURSIVE to_int(_)
\* int() of a text of decimal digits
to_int(ds) ==
    IF ds = << >> THEN 0
    ELSE 10 * to_int(SubSeq(ds, 1, Len(ds) - 1)) + digit_value(ds[Len(ds)])

\* (\d+) at position p: the position after the greedy run of digits
digits_end(t, p) ==
    SetMin({q \in p..(Len(t) + 1) : q = Len(t) + 1 \/ t[q] \notin Digits})

\* the position of the first "\n" at or after p, or the end of the text
line_end(t, p) ==
    SetMin({q \in p..(Len(t) + 1) : q = Len(t) + 1 \/ t[q] = "\n"})

\* \s*(.+) then .strip(), from the position e after a label: the rest of the
\* line that holds the first non-whitespace character after the label; empty
\* when only whitespace follows
value_after(t, e) ==
    LET q == skip_whitespace(t, e)
    IN  IF q > Len(t) THEN << >> ELSE strip(SubSeq(t, q, line_end(t, q) - 1))

\* Label:\s*(.+) with re.IGNORECASE, first match, group stripped; "" if none
labeled_field(t, label) ==
    LET P == {p \in 1..Len(t) : starts_with_nocase(t, p, label)}
    IN  IF P = {} THEN << >> ELSE value_after(t, SetMin(P) + Len(label))

QtyLabel ==
    <<"Q","t","y",":">>
QuantityLabel ==
    <<"Q","u","a","n","t","i","t","y",":">>

\* the length of the (Qty|Quantity): label at position p, 0 if there is none
quantity_label_len(t, p) ==
    IF starts_with(t, p, QtyLabel) THEN Len(QtyLabel)
    ELSE IF starts_with(t, p, QuantityLabel) THEN Len(QuantityLabel)
    ELSE 0

\* _extract_order_info lines 82, 110-116: quantity = 1, then
\* re.search(r"(Qty|Quantity):\s*(\d+)"), int(group 2)
extract_quantity(seg) ==
    LET At(p) == /\ quantity_label_len(seg, p) > 0
                 /\ LET q == skip_whitespace(seg, p + quantity_label_len(seg, p))
                    IN  q <= Len(seg) /\ seg[q] \in Digits
        P == {p \in 1..Len(seg) : At(p)}
    IN  IF P = {} THEN 1
        ELSE LET p == SetMin(P)
                 q == skip_whitespace(seg, p + quantity_label_len(seg, p))
             IN  to_int(SubSeq(seg, q, digits_end(seg, q) - 1))

\* parse_order_details_pdfs line 322:
\* pd.to_numeric(df["quantity"], errors="coerce").fillna(1).astype(int)
\* on the integers of _extract_order_info
to_numeric_quantity(q) == q

CustomizationsLabel ==
    <<"C","u","s","t","o","m","i","z","a","t","i","o","n","s",":">>
Surface2Label ==
    <<"S","u","r","f","a","c","e"," ","2",":">>
SelectOrderLabel ==
    <<"S","e","l","e","c","t"," ","Y","o","u","r"," ","O","r","d","e","r",
      ":">>
ChooseDesignLabel ==
    <<"C","h","o","o","s","e"," ","Y","o","u","r"," ","D","e","s","i","g",
      "n">>
DesignWord ==
    <<"D","e","s","i","g","n">>
NoteLabel ==
    <<"B","o","a","r","d"," ","C","u","s","t","o","m","i","z","a","t","i",
      "o","n"," ","N","o","t","e",":">>
LetterLabel ==
    <<"E","n","g","r","a","v","i","n","g"," ","L","e","t","t","e","r"," ",
      "f","o","r"," ","C","h","e","e","s","e"," ","K","n","i","f","e"," ",
      "H","a","n","d","l","e","s",":">>
GiftNoteWords ==
    <<"G","i","f","t"," ","N","o","t","e">>
GiftBagLabel ==
    <<"G","i","f","t"," ","B","a","g",":">>
SpellingWords ==
    <<"P","l","e","a","s","e"," ","C","H","E","C","K"," ","f","o","r"," ",
      "m","i","s","t","a","k","e","s"," ","a","n","d"," ","s","p","e","l",
      "l","i","n","g","s">>

\* $ without re.MULTILINE: the end of the text, or just before a final "\n"
at_dollar(t, r) == r = Len(t) + 1 \/ (r = Len(t) /\ t[r] = "\n")

\* lines 149-154: the text between "Customizations:" and "Surface 2:" (or $);
\* the whole segment when there is no "Customizations:"
customization_block(seg) ==
    LET P == {p \in 1..Len(seg) : starts_with_nocase(seg, p, CustomizationsLabel)}
    IN  IF P = {} THEN seg
        ELSE LET from == SetMin(P) + Len(CustomizationsLabel)
                 r == SetMin({x \in from..(Len(seg) + 1) :
                                \/ starts_with_nocase(seg, x, Surface2Label)
                                \/ at_dollar(seg, x)})
             IN  SubSeq(seg, from, r - 1)

\* lines 166-181: Choose Your Design\s*#?:\s*Design\s*(\d+), else
\* Design\s*#?\s*[:\-]?\s*(\d+); the position of the digits, 0 if no match
choose_design_digits(t, p) ==
    IF ~starts_with_nocase(t, p, ChooseDesignLabel) THEN 0
    ELSE LET a == skip_whitespace(t, p + Len(ChooseDesignLabel))
             b == IF starts_with(t, a, <<"#">>) THEN a + 1 ELSE a
         IN  IF ~starts_with(t, b, <<":">>) THEN 0
             ELSE LET c == skip_whitespace(t, b + 1)
                  IN  IF ~starts_with_nocase(t, c, DesignWord) THEN 0
                      ELSE LET d == skip_whitespace(t, c + Len(DesignWord))
                           IN  IF d <= Len(t) /\ t[d] \in Digits THEN d ELSE 0

plain_design_digits(t, p) ==
    IF ~starts_with_nocase(t, p, DesignWord) THEN 0
    ELSE LET a == skip_whitespace(t, p + Len(DesignWord))
             b == IF starts_with(t, a, <<"#">>) THEN a + 1 ELSE a
             c == skip_whitespace(t, b)
             d == IF c <= Len(t) /\ t[c] \in {":", "-"} THEN c + 1 ELSE c
             e == skip_whitespace(t, d)
         IN  IF e <= Len(t) /\ t[e] \in Digits THEN e ELSE 0

\* design_number = None
NoDesign == -1

extract_design_number(block) ==
    LET P1 == {p \in 1..Len(block) : choose_design_digits(block, p) > 0}
        P2 == {p \in 1..Len(block) : plain_design_digits(block, p) > 0}
        d == IF P1 # {} THEN choose_design_digits(block, SetMin(P1))
             ELSE IF P2 # {} THEN plain_design_digits(block, SetMin(P2))
             ELSE 0
    IN  IF d = 0 THEN NoDesign
        ELSE to_int(SubSeq(block, d, digits_end(block, d) - 1))

\* Gift Note\s*&\s*Gift Bag: at position p: the position after it, 0 if no match
gift_label_end(t, p) ==
    IF ~starts_with_nocase(t, p, GiftNoteWords) THEN 0
    ELSE LET a == skip_whitespace(t, p + Len(GiftNoteWords))
         IN  IF ~starts_with(t, a, <<"&">>) THEN 0
             ELSE LET b == skip_whitespace(t, a + 1)
                  IN  IF starts_with_nocase(t, b, GiftBagLabel)
                      THEN b + Len(GiftBagLabel) ELSE 0

\* Please CHECK for mistakes and spellings\.?: at position p: the position
\* after it, 0 if no match
spelling_label_end(t, p) ==
    IF ~starts_with_nocase(t, p, SpellingWords) THEN 0
    ELSE LET a == p + Len(SpellingWords)
             b == IF starts_with(t, a, <<".">>) THEN a + 1 ELSE a
         IN  IF starts_with(t, b, <<":">>) THEN b + 1 ELSE 0

\* lines 204-210: group 1 of the gift pattern, stripped; <<found, raw_gift_block>>
raw_gift_block(block) ==
    LET P == {p \in 1..Len(block) : gift_label_end(block, p) > 0}
    IN  IF P = {} THEN <<FALSE, << >> >>
        ELSE LET q == skip_whitespace(block, gift_label_end(block, SetMin(P)))
                 r == SetMin({x \in q..(Len(block) + 1) :
                                \/ spelling_label_end(block, x) > 0
                                \/ at_dollar(block, x)})
             IN  <<TRUE, strip(SubSeq(block, q, r - 1))>>

\* the test of line 212 made case-sensitive
starts_with_no_exact_case(raw) ==
    /\ starts_with(raw, skip_whitespace(raw, 1), <<"n", "o">>)
    /\ LET e == skip_whitespace(raw, 1) + 2
       IN  e > Len(raw) \/ raw[e] \notin WordChars

\* line 212: re.match(r"\s*no\b", raw_gift_block, flags=re.IGNORECASE)
starts_with_no(raw) ==
    /\ starts_with_nocase(raw, skip_whitespace(raw, 1), <<"n", "o">>)
    /\ LET e == skip_whitespace(raw, 1) + 2
       IN  e > Len(raw) \/ raw[e] \notin WordChars

RECURSIVE collapse_from(_, _)
\* re.sub(r"\s+", " ", t) from position p on
collapse_from(t, p) ==
    IF p > Len(t) THEN << >>
    ELSE IF t[p] \in Whitespace
         THEN <<" ">> \o collapse_from(t, skip_whitespace(t, p))
         ELSE <<t[p]>> \o collapse_from(t, p + 1)

\* line 217: re.sub(r"\s+", " ", raw_gift_block).strip()
collapse_whitespace(t) == strip(collapse_from(t, 1))

\* lines 201-217: <<gift_option, gift_message>>
gift_fields(block) ==
    LET g == raw_gift_block(block)
    IN  IF ~g[1] THEN <<"NO", << >> >>
        ELSE IF starts_with_no(g[2]) THEN <<"NO", << >> >>
        ELSE <<"YES", collapse_whitespace(g[2])>>

\* lines 220-227
extract_spelling_confirmation(block) ==
    LET P == {p \in 1..Len(block) : spelling_label_end(block, p) > 0}
    IN  IF P = {} THEN << >>
        ELSE value_after(block, spelling_label_end(block, SetMin(P)))

\* _extract_customization
extract_customization(seg) ==
    LET block == customization_block(seg)
        gift == gift_fields(block)
    IN  [order_option_raw |-> labeled_field(block, SelectOrderLabel),
         design_number |-> extract_design_number(block),
         board_customization_note |-> labeled_field(block, NoteLabel),
         engraving_letter |-> labeled_field(block, LetterLabel),
         gift_option |-> gift[1],
         gift_message |-> gift[2],
         spelling_confirmation |-> extract_spelling_confirmation(block)]

NoEngravingKey ==
    <<"n","o"," ","e","n","g","r","a","v","i","n","g">>
BoardOnlyKey ==
    <<"b","o","a","r","d"," ","o","n","l","y">>
UtensilKey ==
    <<"u","t","e","n","s","i","l">>
NoEngravingName ==
    <<"N","o"," ","E","n","g","r","a","v","i","n","g">>
BoardOnlyNameWithRemark ==
    <<"B","o","a","r","d"," ","O","n","l","y",","," ","N","o"," ","E","n",
      "g","r","a","v","i","n","g">>
BoardOnlyName ==
    <<"B","o","a","r","d"," ","O","n","l","y">>
BoardUtensilsName ==
    <<"B","o","a","r","d","+","U","t","e","n","s","i","l","s"," ","E","n",
      "g","r","a","v","i","n","g">>

UtensilPhrases ==
    { <<"b","o","a","r","d","+","u","t","e","n","s","i","l","s">>,
      <<"b","o","a","r","d"," ","+"," ","u","t","e","n","s","i","l","s">>,
      <<"b","o","a","r","d"," ","&"," ","u","t","e","n","s","i","l","s">>,
      <<"b","o","a","r","d"," ","a","n","d"," ","u","t","e","n","s","i","l","s">>,
      <<"b","o","a","r","d"," ","+"," ","c","h","e","e","s","e"," ","k","n","i","f","e">>,
      <<"b","o","a","r","d","+","c","h","e","e","s","e"," ","k","n","i","f","e">>,
      <<"b","o","a","r","d"," ","&"," ","k","n","i","f","e">>,
      <<"b","o","a","r","d"," ","a","n","d"," ","k","n","i","f","e">> }

\* the 'board only' rule tried before the 'no engraving' rule
normalize_board_type_board_only_first(raw_in) ==
    LET raw == safe_strip(raw_in)
        low == lower(raw)
    IN  IF raw = << >> THEN << >>
        ELSE IF contains(low, BoardOnlyKey) /\ ~contains(low, UtensilKey) THEN BoardOnlyName
        ELSE IF contains(low, NoEngravingKey) THEN NoEngravingName
        ELSE IF \E k \in UtensilPhrases : contains(low, k) THEN BoardUtensilsName
        ELSE raw

\* helpers.normalize_board_type
normalize_board_type(raw_in) ==
    LET raw == safe_strip(raw_in)
        low == lower(raw)
    IN  IF raw = << >> THEN << >>
        ELSE IF contains(low, NoEngravingKey) THEN NoEngravingName
        ELSE IF contains(low, BoardOnlyKey) /\ ~contains(low, UtensilKey) THEN BoardOnlyName
        ELSE IF \E k \in UtensilPhrases : contains(low, k) THEN BoardUtensilsName
        ELSE raw

(***************************************************************************)
(* normalize_board_type applied to the board-type text of a chunk, and to   *)
(* its own result.                                                          *)
(***************************************************************************)
MaxBoardPieces == 3

\* what the text after 'Select Your Order:' is put together from
BoardPieces ==
    { <<"N","o"," ","E","n","g","r","a","v","i","n","g">>,
      <<"B","O","A","R","D"," ","O","N","L","Y">>,
      <<"B","o","a","r","d">>,
      <<"+">>,
      <<" ","+"," ">>,
      <<" ","&"," ">>,
      <<" ","a","n","d"," ">>,
      <<"U","t","e","n","s","i","l","s">>,
      <<"c","h","e","e","s","e"," ","k","n","i","f","e">>,
      <<"K","n","i","f","e">>,
      <<" ","x">> }

\* order_option_raw: the rest of the line, stripped
BoardTexts == {strip(flatten(c)) : c \in SeqsUpTo(BoardPieces, MaxBoardPieces)}

BoardInit ==
    /\ board_raw \in BoardTexts
    /\ board_once = << >> /\ board_twice = << >> /\ bpc = "raw"
    /\ MatchIdle /\ SplitIdle /\ ExpandIdle /\ OrderIdle /\ PageIdle /\ FuzzyIdle /\ ParseIdle /\ ShipIdle

NormalizeBoard ==
    /\ bpc = "raw"
    /\ board_once' = normalize_board_type(board_raw)
    /\ bpc' = "once"
    /\ UNCHANGED <<board_raw, board_twice>>

NormalizeAgain ==
    /\ bpc = "once"
    /\ board_twice' = normalize_board_type(board_once)
    /\ bpc' = "twice"
    /\ UNCHANGED <<board_raw, board_once>>

BoardNext == NormalizeBoard \/ NormalizeAgain

SpecBoard ==
    BoardInit /\ [][BoardNext /\ UNCHANGED <<matchVars, splitVars, expandVars, orderVars, pageVars, fuzzyVars, parseVars, shipVars>>]_vars

MaxQtyPieces == 3
MaxCustPieces == 3

\* what the quantity line of an order chunk is put together from
QuantityPieces ==
    { QtyLabel, QuantityLabel, <<" ">>, <<"0">>, <<"2">>, <<"x">>, <<"\n">>,
      <<"q","t","y",":">> }

\* lines of the customization part of an order chunk
CustomizationPieces ==
    { <<"C","u","s","t","o","m","i","z","a","t","i","o","n","s",":","\n">>,
      <<"S","u","r","f","a","c","e"," ","2",":","\n">>,
      <<"G","i","f","t"," ","N","o","t","e"," ","&"," ","G","i","f","t"," ","B","a","g",":"," ">>,
      <<"N","o"," ","t","h","a","n","k","s",","," ">>,
      <<"N","o","t"," "," ","a","\n","b","a","g"," ">>,
      <<"P","l","e","a","s","e"," ","C","H","E","C","K"," ","f","o","r"," ","m","i","s","t","a","k","e","s"," ","a","n","d"," ","s","p","e","l","l","i","n","g","s",".",":"," ","o","k","\n">>,
      <<"S","e","l","e","c","t"," ","Y","o","u","r"," ","O","r","d","e","r",":"," ","B","o","a","r","d"," ","O","n","l","y","\n">>,
      <<"D","e","s","i","g","n",":"," ","3","\n">>,
      <<"B","o","a","r","d"," ","C","u","s","t","o","m","i","z","a","t","i","o","n"," ","N","o","t","e",":"," ","H","i","\n">> }

OrderInit ==
    /\ segment \in {flatten(ps) : ps \in SeqsUpTo(QuantityPieces, MaxQtyPieces)}
                \cup {flatten(ps) : ps \in SeqsUpTo(CustomizationPieces, MaxCustPieces)}
    /\ info = << >>
    /\ cust = << >>
    /\ record = << >>
    /\ xpc = "info"
    /\ MatchIdle /\ SplitIdle /\ ExpandIdle /\ LaterIdle

\* parse_order_details_pdfs line 269
ExtractOrderInfo ==
    /\ xpc = "info"
    /\ info' = [quantity |-> extract_quantity(segment)]
    /\ xpc' = "cust"
    /\ UNCHANGED <<segment, cust, record>>

\* parse_order_details_pdfs line 272
ExtractCustomization ==
    /\ xpc = "cust"
    /\ cust' = extract_customization(segment)
    /\ xpc' = "record"
    /\ UNCHANGED <<segment, info, record>>

\* parse_order_details_pdfs lines 283-309 and 314-322 (the fields taken from
\* info and cust)
BuildRecord ==
    /\ xpc = "record"
    /\ record' = [quantity |-> to_numeric_quantity(info.quantity),
                  order_option |-> normalize_board_type(cust.order_option_raw),
                  design_number |-> cust.design_number,
                  board_customization_note |-> cust.board_customization_note,
                  engraving_letter |-> cust.engraving_letter,
                  gift_option |-> cust.gift_option,
                  gift_message |-> cust.gift_message,
                  spelling_confirmation |-> cust.spelling_confirmation]
    /\ xpc' = "done"
    /\ UNCHANGED <<segment, info, cust>>

OrderNext == ExtractOrderInfo \/ ExtractCustomization \/ BuildRecord

SpecOrder ==
    OrderInit /\ [][OrderNext /\ UNCHANGED <<matchVars, splitVars, expandVars, laterVars>>]_vars

(***************************************************************************)
(* Properties of match_orders_to_labels.                                    *)
(***************************************************************************)
AnnotationColumns == {"matched_label_id", "shipping_label_status"}
MatchDone == mpc = "done"

\* lowercased, non-alphanumerics stripped
NormalizedAddress(text) == SelectSeq(lower(text), IsLowerAlnum)

\* conditions (a), (b), (c) between an order and a label as the caller holds them
Qualifies(o, l) ==
    /\ o.zip # << >> /\ o.zip = l.zip
    /\ NormalizedAddress(o.address_line1) # << >>
    /\ NormalizedAddress(o.address_line1) = NormalizedAddress(l.address_line1)
    /\ fuzzy_equal(o.ship_to_name, l.recipient_name)

QualifyingLabels(o) == {j \in 1..Len(callerLabels) : Qualifies(o, callerLabels[j])}

\* similarity of two names as a pair <<2 * matches, total length>>
NameScore(a, b) ==
    LET x == normalize_for_match(a)
        y == normalize_for_match(b)
    IN  <<2 * matching_size(x, y, 0, Len(x), 0, Len(y)), Len(x) + Len(y)>>

\* C1: with non-empty orders and labels, an order is Matched if and only if
\* some label has the same non-empty postal code, the same non-empty
\* normalized address line 1 and a fuzzy-equal name; otherwise it is Missing
\* with an empty matched label identifier.
C1_MatchedIffQualifyingLabel ==
    (MatchDone /\ callerOrders # << >> /\ callerLabels # << >>) =>
        /\ Len(matchResult) = Len(callerOrders)
        /\ \A i \in 1..Len(callerOrders) :
            IF QualifyingLabels(callerOrders[i]) # {}
            THEN matchResult[i].shipping_label_status = StatusMatched
            ELSE /\ matchResult[i].shipping_label_status = StatusMissing
                 /\ matchResult[i].matched_label_id = << >>

\* both outcomes in one result: a Matched order, and an order left Missing by
\* the name test alone
C1_Witness ==
    /\ MatchDone
    /\ \E i, k \in 1..Len(matchResult) :
        /\ matchResult[i].shipping_label_status = StatusMatched
        /\ matchResult[k].shipping_label_status = StatusMissing
        /\ \E j \in 1..Len(callerLabels) :
            /\ callerOrders[k].zip = callerLabels[j].zip
            /\ NormalizedAddress(callerOrders[k].address_line1)
                 = NormalizedAddress(callerLabels[j].address_line1)
            /\ NormalizedAddress(callerOrders[k].address_line1) # << >>

\* C2: first match, not best match: the matched label identifier is that of
\* the earliest qualifying label in the label collection's order.
C2_FirstQualifyingLabelWins ==
    MatchDone =>
        \A i \in 1..Len(callerOrders) :
            QualifyingLabels(callerOrders[i]) # {} =>
                matchResult[i].matched_label_id
                    = callerLabels[SetMin(QualifyingLabels(callerOrders[i]))].label_id

\* an order with two qualifying labels, the later one the more similar, that
\* is matched to the earlier one
C2_Witness ==
    /\ MatchDone
    /\ \E i \in 1..Len(callerOrders) :
        \E j, k \in QualifyingLabels(callerOrders[i]) :
            /\ j < k
            /\ matchResult[i].matched_label_id = callerLabels[j].label_id
            /\ LET sj == NameScore(callerOrders[i].ship_to_name,
                                   callerLabels[j].recipient_name)
                   sk == NameScore(callerOrders[i].ship_to_name,
                                   callerLabels[k].recipient_name)
               IN  sj[1] * sk[2] < sk[1] * sj[2]

\* C3: with an empty order collection or an empty label collection every
\* input order comes back Missing with an empty matched label identifier,
\* and no order is compared with any label.
C3_EmptyInputShortCircuits ==
    (MatchDone /\ (callerOrders = << >> \/ callerLabels = << >>)) =>
        /\ compared = 0
        /\ Len(matchResult) = Len(callerOrders)
        /\ \A i \in 1..Len(callerOrders) :
            /\ AnnotationColumns \subseteq DOMAIN matchResult[i]
            /\ matchResult[i].shipping_label_status = StatusMissing
            /\ matchResult[i].matched_label_id = << >>
            /\ \A c \in DOMAIN callerOrders[i] : matchResult[i][c] = callerOrders[i][c]

C3_Witness ==
    /\ MatchDone
    /\ callerLabels = << >>
    /\ Len(callerOrders) >= 2
    /\ Len(matchResult) = Len(callerOrders)

\* the result has the input's rows in the input's order, every original field
\* unchanged, and exactly the two annotation columns added
ResultKeepsOrders ==
    MatchDone =>
        /\ Len(matchResult) = Len(callerOrders)
        /\ \A i \in 1..Len(callerOrders) :
            /\ DOMAIN matchResult[i] = DOMAIN callerOrders[i] \cup AnnotationColumns
            /\ \A c \in DOMAIN callerOrders[i] : matchResult[i][c] = callerOrders[i][c]

\* C4: the call never changes the caller's label collection (nor the
\* caller's orders), and its result is a new collection with the same rows in
\* the same order, the original fields unchanged, the two annotation fields
\* added and no helper column.
C4_LabelsUntouchedResultAnnotated ==
    /\ []ResultKeepsOrders
    /\ [][callerLabels' = callerLabels /\ callerOrders' = callerOrders]_vars

C4_Witness ==
    /\ MatchDone
    /\ compared > 0
    /\ Len(matchResult) >= 2
    /\ \A j \in 1..Len(callerLabels) : DOMAIN callerLabels[j] \cap HelperColumns = {}
    /\ \A j \in 1..Len(labels_df) : HelperColumns \subseteq DOMAIN labels_df[j]

\* what an order gets from its own fields and the labels alone
OwnAnnotation(o) ==
    IF QualifyingLabels(o) = {}
    THEN << << >>, StatusMissing >>
    ELSE << callerLabels[SetMin(QualifyingLabels(o))].label_id, StatusMatched >>

\* C5: an order's annotation is a function of its own postal code, address
\* line 1 and name and of the labels, whatever other orders come before or
\* after it; labels are not consumed; a second call on the same inputs gives
\* the same result.
C5_PerOrderIndependent ==
    MatchDone =>
        /\ \A i \in 1..Len(callerOrders) :
            << matchResult[i].matched_label_id, matchResult[i].shipping_label_status >>
                = OwnAnnotation(callerOrders[i])
        /\ runs > 1 => matchResult = prevResult

\* second call finished, two orders matched to one and the same label, after
\* an order that was left Missing
C5_Witness ==
    /\ MatchDone
    /\ runs > 1
    /\ \E i, k \in 1..Len(matchResult) :
        /\ i # k
        /\ matchResult[i].shipping_label_status = StatusMatched
        /\ matchResult[i].matched_label_id = matchResult[k].matched_label_id

(***************************************************************************)
(* Properties of _split_segments.                                           *)
(***************************************************************************)
SplitDone == spc = "done"

\* an order-identifier marker begins at position p: the label, any amount of
\* whitespace, then 3 digits, a dash, 7 digits, a dash, 7 digits
MarkerBeginsAt(t, p) ==
    /\ starts_with(t, p, OrderIdLabel)
    /\ \E w \in 0..Len(t) :
        LET q == p + Len(OrderIdLabel) + w
        IN  /\ q + 18 <= Len(t)
            /\ \A d \in 0..(w - 1) : t[p + Len(OrderIdLabel) + d] \in Whitespace
            /\ \A d \in 0..18 :
                IF d \in {3, 11} THEN t[q + d] = "-" ELSE t[q + d] \in Digits

MarkerPositions(t) == {p \in 1..Len(t) : MarkerBeginsAt(t, p)}

\* C6: a text with N markers that starts with a marker gives exactly N
\* chunks; chunk i runs from marker i to just before marker i+1 (the last one
\* to the end of the text), so the chunks begin at a marker, do not overlap
\* and follow the source order.
C6_OneChunkPerMarker ==
    (SplitDone /\ MarkerBeginsAt(full_text, 1)) =>
        LET M == MarkerPositions(full_text)
            nth(k) == CHOOSE p \in M : Cardinality({q \in M : q < p}) = k - 1
        IN  /\ Len(segments) = Cardinality(M)
            /\ \A k \in 1..Len(segments) :
                /\ MarkerBeginsAt(segments[k], 1)
                /\ segments[k] =
                     SubSeq(full_text, nth(k),
                            IF k = Cardinality(M) THEN Len(full_text) ELSE nth(k + 1) - 1)
            /\ flatten(segments) = full_text

\* two markers, the second with whitespace before its number, two chunks
C6_Witness ==
    /\ SplitDone
    /\ MarkerBeginsAt(full_text, 1)
    /\ Len(segments) = 2
    /\ \E p \in MarkerPositions(full_text) :
        full_text[p + Len(OrderIdLabel)] \in Whitespace

\* C7: a text without any marker gives no chunk, and text before the first
\* marker is never a chunk (every chunk begins at a marker).
C7_NoChunkWithoutMarker ==
    SplitDone =>
        /\ MarkerPositions(full_text) = {} => segments = << >>
        /\ \A k \in 1..Len(segments) : MarkerBeginsAt(segments[k], 1)

(***************************************************************************)
(* Properties of expand_by_quantity.                                        *)
(***************************************************************************)
ExpandDone == epc = "done"

RECURSIVE QuantitySum(_, _)
\* total quantity of the first k rows of the input
QuantitySum(df, k) == IF k = 0 THEN 0 ELSE QuantitySum(df, k - 1) + df[k].row.quantity

\* C8: every input row with quantity q is in the output exactly q times, the
\* copies adjacent and equal to the row in every field with no field added,
\* rows in their input order; the output length is the sum of the quantities.
C8_EachRowRepeatedQuantityTimes ==
    ExpandDone =>
        /\ Len(expanded) = QuantitySum(filtered, Len(filtered))
        /\ \A k \in 1..Len(filtered) :
            \A c \in 1..filtered[k].row.quantity :
                /\ QuantitySum(filtered, k - 1) + c <= Len(expanded)
                /\ expanded[QuantitySum(filtered, k - 1) + c].row = filtered[k].row

\* a row with quantity 2 or more after a row with quantity 1, on index
\* labels that are not consecutive
C8_Witness ==
    /\ ExpandDone
    /\ Len(filtered) >= 2
    /\ filtered[1].row.quantity = 1
    /\ filtered[2].row.quantity >= 2
    /\ filtered[2].idx > filtered[1].idx + 1
    /\ Len(expanded) >= 3

(***************************************************************************)
(* Properties of the order extractor.                                       *)
(***************************************************************************)
RecordDone == xpc = "done"

\* C9: every record has quantity >= 1, whatever the chunk holds.
C9_QuantityAtLeastOne == RecordDone => record.quantity >= 1

\* the 'Gift Note & Gift Bag' field of the customization block: the
\* positions after its label
GiftLabelEnds(b) ==
    {gift_label_end(b, p) : p \in {x \in 1..Len(b) : gift_label_end(b, x) > 0}}

\* the content of the first such field: what follows the label, up to the
\* spelling-confirmation label if one follows and to the end of the block
\* otherwise, without the surrounding whitespace
GiftContent(b) ==
    LET e == SetMin(GiftLabelEnds(b))
        S == {x \in e..Len(b) : spelling_label_end(b, x) > 0}
        stop == IF S = {} THEN Len(b) + 1 ELSE SetMin(S)
    IN  strip(SubSeq(b, e, stop - 1))

\* the text begins with the word "no", in any case
BeginsWithWordNo(c) ==
    /\ Len(c) >= 2
    /\ lower_char(c[1]) = "n" /\ lower_char(c[2]) = "o"
    /\ Len(c) >= 3 => c[3] \notin WordChars

\* every run of whitespace replaced by one space
WhitespaceCollapsed(c) ==
    LET keep == {i \in 1..Len(c) : ~(c[i] \in Whitespace /\ i > 1 /\ c[i - 1] \in Whitespace)}
        nth(k) == CHOOSE i \in keep : Cardinality({j \in keep : j < i}) = k - 1
    IN  [k \in 1..Cardinality(keep) |->
            IF c[nth(k)] \in Whitespace THEN " " ELSE c[nth(k)]]

HasSpellingLabel(t) == \E x \in 1..Len(t) : spelling_label_end(t, x) > 0

\* what stands after the first spelling-confirmation label on its line,
\* without the surrounding whitespace
SpellingLine(t) ==
    LET x == SetMin({y \in 1..Len(t) : spelling_label_end(t, y) > 0})
        e == spelling_label_end(t, x)
    IN  strip(SubSeq(t, e, line_end(t, e) - 1))

\* C10: gift content beginning with the word "no" gives flag NO and an empty
\* message; any other content of a present field gives flag YES and the
\* content with whitespace collapsed; the spelling confirmation is captured
\* on its own and is no part of the gift message; the message is non-empty
\* only when the flag is YES.
C10_GiftRule ==
    RecordDone =>
        LET b == customization_block(segment)
        IN  /\ (GiftLabelEnds(b) # {} /\ BeginsWithWordNo(GiftContent(b))) =>
                   record.gift_option = "NO" /\ record.gift_message = << >>
            /\ (GiftLabelEnds(b) # {} /\ ~BeginsWithWordNo(GiftContent(b))) =>
                   /\ record.gift_option = "YES"
                   /\ record.gift_message = WhitespaceCollapsed(GiftContent(b))
            /\ HasSpellingLabel(b) =>
                   (SpellingLine(b) # << >> =>
                        record.spelling_confirmation = SpellingLine(b))
            /\ record.gift_message # << >> => record.gift_option = "YES"

\* 'Gift Note & Gift Bag: No thanks, Please CHECK ... .: ok': flag NO, empty
\* message, spelling confirmation captured
C10_Witness ==
    /\ RecordDone
    /\ GiftLabelEnds(customization_block(segment)) # {}
    /\ BeginsWithWordNo(GiftContent(customization_block(segment)))
    /\ record.gift_option = "NO"
    /\ record.gift_message = << >>
    /\ record.spelling_confirmation = <<"o", "k">>

\* the chunk up to its first 'Surface 2:' marker (all of it if there is none)
BeforeSurface2(seg) ==
    LET S == {p \in 1..Len(seg) : starts_with_nocase(seg, p, Surface2Label)}
    IN  IF S = {} THEN seg ELSE SubSeq(seg, 1, SetMin(S) - 1)

\* C11: no customization field takes its value from text after a
\* 'Surface 2:' marker: the fields are those of the chunk cut at the marker.
C11_OnlyFirstSurface ==
    xpc \in {"record", "done"} => cust = extract_customization(BeforeSurface2(segment))

BoardDone == bpc \in {"once", "twice"}

\* the board-plus-utensils / knife phrasings
ListedPhrasings ==
    { <<"b","o","a","r","d","+","u","t","e","n","s","i","l","s">>,
      <<"b","o","a","r","d"," ","+"," ","u","t","e","n","s","i","l","s">>,
      <<"b","o","a","r","d"," ","&"," ","u","t","e","n","s","i","l","s">>,
      <<"b","o","a","r","d"," ","a","n","d"," ","u","t","e","n","s","i","l","s">>,
      <<"b","o","a","r","d"," ","+"," ","c","h","e","e","s","e"," ","k","n","i","f","e">>,
      <<"b","o","a","r","d","+","c","h","e","e","s","e"," ","k","n","i","f","e">>,
      <<"b","o","a","r","d"," ","&"," ","k","n","i","f","e">>,
      <<"b","o","a","r","d"," ","a","n","d"," ","k","n","i","f","e">> }

HasNoEngraving(t) == contains(lower(t), <<"n","o"," ","e","n","g","r","a","v","i","n","g">>)
HasBoardOnly(t) ==
    /\ contains(lower(t), <<"b","o","a","r","d"," ","o","n","l","y">>)
    /\ ~contains(lower(t), <<"u","t","e","n","s","i","l">>)
HasListedPhrasing(t) == \E k \in ListedPhrasings : contains(lower(t), k)

C13_Idempotent ==
    bpc = "twice" => board_twice = board_once

C13_Witness ==
    bpc = "twice" /\ board_once = BoardOnlyName /\ board_raw # BoardOnlyName

PageDone == lpc = "done"

\* the lines of a page that hold something besides whitespace, stripped
NonEmptyLines(t) ==
    LET ls == splitlines(t)
    IN  SelectSeq([i \in 1..Len(ls) |-> strip(ls[i])], IsNonEmpty)

\* the first of the first ten non-empty lines that matches the postal-code
\* pattern; empty if none does
FirstPostalLine(ne) ==
    LET Z == {i \in 1..Len(ne) : i <= 10 /\ has_zip(ne[i])}
    IN  IF Z = {} THEN << >> ELSE ne[SetMin(Z)]

\* five digits, or five digits, a hyphen and four digits
IsPostalCode(z) ==
    \/ Len(z) = 5 /\ \A i \in 1..5 : z[i] \in Digits
    \/ Len(z) = 10 /\ z[6] = "-" /\ \A i \in (1..5) \cup (7..10) : z[i] \in Digits

\* C14: a page with fewer than 3 non-empty lines, or whose first
\* postal-pattern line among the first 10 non-empty lines yields no postal
\* code, gives no record; a record has a postal code and carries the first
\* and second non-empty lines as recipient name and address line 1.
C14_LabelPageRule ==
    PageDone =>
        LET ne == NonEmptyLines(page_text)
        IN  /\ Len(ne) < 3 => label_core = NoLabel
            /\ extract_city_state_zip(FirstPostalLine(ne))[3] = << >>
                    => label_core = NoLabel
            /\ label_core # NoLabel =>
                    /\ IsPostalCode(label_core.zip)
                    /\ label_core.recipient_name = ne[1]
                    /\ label_core.address_line1 = ne[2]

C14_Witness ==
    /\ PageDone /\ label_core # NoLabel
    /\ label_core.recipient_name = <<"J","o"," ","D","o","e">>
    /\ label_core.zip = <<"8","9","5","0","1","-","1","2","3","4">>

\* C15: fuzzy_equal gives the same answer for a pair of names in either order.
C15_FuzzyEqualSymmetric ==
    fpc = "done" => equal_ab = equal_ba

ParseDone == ppc = "done"

RECURSIVE RecordsFrom(_, _, _, _)
\* the records of the units of one document from unit u on, a raising unit
\* giving none
RecordsFrom(which, f, units, u) ==
    IF u >= Len(units) THEN << >>
    ELSE (IF units[u + 1] \in GoodUnits
          THEN <<record_of(which, f, u, units[u + 1])>> ELSE << >>)
         \o RecordsFrom(which, f, units, u + 1)

RECURSIVE ExpectedFrom(_, _, _)
\* document by document from document f on: nothing for a document that
\* cannot be read, its own records for any other
ExpectedFrom(which, files, f) ==
    IF f >= Len(files) THEN << >>
    ELSE (IF files[f + 1].read_ok
          THEN RecordsFrom(which, f, files[f + 1].units, 0) ELSE << >>)
         \o ExpectedFrom(which, files, f + 1)

HasReadFailure == \E i \in 1..Len(uploaded_files) : ~uploaded_files[i].read_ok

NoUnitRaises ==
    \A i \in 1..Len(uploaded_files) :
        \A u \in 1..Len(uploaded_files[i].units) :
            uploaded_files[i].units[u] # RaisingUnit

C17_UnitFailureCaught ==
    /\ call_state # "raised"
    /\ ParseDone => collected = ExpectedFrom(parser, uploaded_files, 0)

ShipDone == hpc = "done"

\* the non-empty lines that follow the 'ship to' anchor
AnchorBlock(lines) ==
    IF ship_to_index(lines) = NoAnchor THEN << >>
    ELSE shipping_block(lines, ship_to_index(lines))

\* C18: of the block after the 'ship to' anchor the first line is the
\* recipient name, the second is address line 1, and city, state and postal
\* code come from the first postal-code line among the third line onward,
\* whatever address line 1 holds.
C18_CszAfterAddressLine ==
    ShipDone =>
        LET block == AnchorBlock(seg_lines)
            csz_line == first_zip_line(csz_candidates_after_address(block))
        IN  /\ block # << >> => shipping.ship_to_name = block[1]
            /\ Len(block) >= 2 => shipping.address_line1 = block[2]
            /\ csz_line # << >> =>
                  <<shipping.city, shipping.state, shipping.zip>>
                      = extract_city_state_zip(csz_line)

\* C19: in every result the two annotation fields agree: an order is Matched
\* exactly when its matched label identifier is non-empty, and a non-empty
\* identifier is that of a label of the input collection that has the
\* order's postal code, its normalized address line 1 and a fuzzy-equal name.
C19_AnnotationFieldsAgree ==
    MatchDone =>
        \A i \in 1..Len(matchResult) :
            /\ AnnotationColumns \subseteq DOMAIN matchResult[i]
            /\ matchResult[i].shipping_label_status \in {StatusMatched, StatusMissing}
            /\ (matchResult[i].shipping_label_status = StatusMatched)
                    <=> (matchResult[i].matched_label_id # << >>)
            /\ matchResult[i].matched_label_id # << >> =>
                    \E j \in 1..Len(callerLabels) :
                        /\ callerLabels[j].label_id = matchResult[i].matched_label_id
                        /\ Qualifies(callerOrders[i], callerLabels[j])

\* a result whose first order is left Missing and whose second order is
\* matched to the second label
C19_Witness ==
    /\ MatchDone /\ Len(matchResult) = 2 /\ Len(callerLabels) = 2
    /\ matchResult[1].shipping_label_status = StatusMissing
    /\ matchResult[1].matched_label_id = << >>
    /\ matchResult[2].shipping_label_status = StatusMatched
    /\ matchResult[2].matched_label_id = callerLabels[2].label_id

====
